---- MODULE Spec2Model ----
(***************************************************************************)
(* Model of the smartagri dashboard (src/src/App.js).                      *)
(*                                                                         *)
(* Two specifications share this module:                                   *)
(*   ClassifySpec  the favorable-range classifier getColorCode, applied    *)
(*                 to the text typed into a Manual range input;            *)
(*   Spec          the application state machine: bootstrap, navigation,   *)
(*                 realtime pushes, the sampling timer and the advisory    *)
(*                 requests.                                               *)
(*                                                                         *)
(* JavaScript strings are sequences of one-character strings.  JavaScript  *)
(* numbers are integers counting tenths (fixed point, one decimal digit):  *)
(* the number 85.0 is 850.  The result of Number() is a sequence: <<n>>    *)
(* for the number n and the empty sequence for NaN.                        *)
(***************************************************************************)
EXTENDS Integers, Sequences, FiniteSets, TLC

VARIABLES
    \* ---- classifier (ResultPage row) ----
    favorable,      \* data.favorable of the row: the text of the range input
    nTyped,         \* number of input events that built favorable
    rowKey,         \* key of the rendered row (a key of localSensorData)
    rowValue,       \* data.value of the rendered row
    color,          \* class name returned by getColorCode for the row
    \* ---- build-time configuration (process.env) ----
    firebaseConfigured, \* REACT_APP_FIREBASE_API_KEY and _PROJECT_ID are set
    geminiKeyPresent,   \* REACT_APP_GEMINI_API_KEY is set
    \* ---- App ----
    bootPc,         \* position of the Firebase bootstrap
    db,             \* db state: TRUE once setDb(realtimeDb) ran
    userId,         \* userId state: 0 for null
    isAuthReady,
    dbSubscribed,   \* the onValue listener is registered
    currentPage,
    selectedParameter,
    isDarkMode,
    appSensorData,  \* the six measurement values (tenths)
    consoleLog,     \* messages written with console.error / console.log
    now,            \* wall clock, in time steps
    \* ---- LandSoilAnalysisPage (mounted while currentPage = "soilAnalysis") ----
    soilAnalysisSamples,
    isStoringData,
    sampleCounterRef,
    intervalRef,    \* id of the last timer armed, 0 for null
    timers,         \* the browser's armed interval timers
    captureStart,   \* history: clock and log length when capture was started
    \* ---- ResultPage (mounted while currentPage = "results") ----
    soilHealthSuggestion,
    cropPrediction,
    loadingSoilHealth,
    loadingCropPrediction,
    inFlight,       \* advisory HTTP requests issued and not yet settled
    requestProfile, \* per flow, the selectedCrop and the favorable strings
                    \* of the render whose handler issued the mounted
                    \* page's request in flight; <<>> when none
    \* ---- crop profiles ----
    cropFavorableData,   \* the module-level catalog object
    selectedCrop,
    manualFavorableData,
    localSensorData      \* per key: value and favorable of the table row

clsVars == <<favorable, nTyped, rowKey, rowValue, color>>

envVars == <<firebaseConfigured, geminiKeyPresent>>

appVars == <<bootPc, db, userId, isAuthReady, dbSubscribed, currentPage,
             selectedParameter, isDarkMode, appSensorData, consoleLog, now>>

soilVars == <<soilAnalysisSamples, isStoringData, sampleCounterRef,
              intervalRef, timers, captureStart>>

resultVars == <<soilHealthSuggestion, cropPrediction, loadingSoilHealth,
                loadingCropPrediction, inFlight>>

profileVars == <<cropFavorableData, selectedCrop, manualFavorableData,
                 localSensorData>>

uiVars == <<envVars, appVars, soilVars, resultVars, requestProfile,
            profileVars>>

vars == <<clsVars, uiVars>>

-----------------------------------------------------------------------------
(* Bounds *)

\* input events on the range input
MaxTyped == 4

\* time steps the clock runs for
MaxTime == 5

\* time steps in one sampling interval
TicksPerInterval == 2

\* interval timers the browser can hold armed at once
MaxTimers == 2

\* advisory requests that can be in flight at once
MaxInFlight == 3

\* the sampling period passed to setInterval, in ms
SampleIntervalMs == 60000

-----------------------------------------------------------------------------
(* JavaScript string helpers *)

NaN == <<>>

Num(n) == <<n>>

IsSpace(c) == c = " "

IsDigit(c) == c \in {"0", "1", "2", "3", "4", "5", "6", "7", "8", "9"}

DigitVal(c) ==
    CASE c = "0" -> 0 [] c = "1" -> 1 [] c = "2" -> 2 [] c = "3" -> 3
      [] c = "4" -> 4 [] c = "5" -> 5 [] c = "6" -> 6 [] c = "7" -> 7
      [] c = "8" -> 8 [] c = "9" -> 9

\* String.prototype.toUpperCase on one character (letters of the row keys
\* and of the unit names)
ToUpper(c) ==
    CASE c = "a" -> "A" [] c = "c" -> "C" [] c = "e" -> "E" [] c = "g" -> "G"
      [] c = "h" -> "H" [] c = "i" -> "I" [] c = "k" -> "K" [] c = "l" -> "L"
      [] c = "m" -> "M" [] c = "n" -> "N" [] c = "o" -> "O" [] c = "p" -> "P"
      [] c = "r" -> "R" [] c = "s" -> "S" [] c = "t" -> "T" [] c = "u" -> "U"
      [] c = "d" -> "D" [] c = "y" -> "Y"
      [] OTHER -> c

\* the character class [A-Z]
IsUpper(c) ==
    c \in {"A", "B", "C", "D", "E", "F", "G", "H", "I", "J", "K", "L", "M",
           "N", "O", "P", "Q", "R", "S", "T", "U", "V", "W", "X", "Y", "Z"}

\* s.slice(from) with 0-based from
Slice(s, from) == SubSeq(s, from + 1, Len(s))

\* case-insensitive test that pat (upper case) occurs in s at 1-based i
MatchesAtCI(s, i, pat) ==
    /\ i + Len(pat) - 1 <= Len(s)
    /\ \A j \in 1..Len(pat) : ToUpper(s[i + j - 1]) = pat[j]

\* the alternatives of /°C|%|mg\/kg/gi, in the order the regex tries them
UnitPatterns == << <<"°", "C">>, <<"%">>, <<"M", "G", "/", "K", "G">> >>

\* length of the match of the unit regex at position i, 0 when none
UnitMatchLen(s, i) ==
    IF MatchesAtCI(s, i, UnitPatterns[1]) THEN Len(UnitPatterns[1])
    ELSE IF MatchesAtCI(s, i, UnitPatterns[2]) THEN Len(UnitPatterns[2])
    ELSE IF MatchesAtCI(s, i, UnitPatterns[3]) THEN Len(UnitPatterns[3])
    ELSE 0

RECURSIVE ReplaceUnitsFrom(_, _)
ReplaceUnitsFrom(s, i) ==
    IF i > Len(s) THEN <<>>
    ELSE LET n == UnitMatchLen(s, i)
         IN  IF n > 0 THEN ReplaceUnitsFrom(s, i + n)
             ELSE <<s[i]>> \o ReplaceUnitsFrom(s, i + 1)

\* favorable.replace(/°C|%|mg\/kg/gi, '')
ReplaceUnits(s) == ReplaceUnitsFrom(s, 1)

RECURSIVE TrimStart(_)
TrimStart(s) ==
    IF s # <<>> /\ IsSpace(Head(s)) THEN TrimStart(Tail(s)) ELSE s

RECURSIVE TrimEnd(_)
TrimEnd(s) ==
    IF s # <<>> /\ IsSpace(s[Len(s)]) THEN TrimEnd(SubSeq(s, 1, Len(s) - 1))
    ELSE s

\* String.prototype.trim
Trim(s) == TrimEnd(TrimStart(s))

\* the separator regex without the hyphen
IsSeparator_tildeOnly(c) == c = "~"

\* the alternatives of /~|-/
IsSeparator(c) == c \in {"~", "-"}

\* s.split(/~|-/): the tokens between separators; always at least one token
RECURSIVE SplitFrom(_, _, _)
SplitFrom(s, i, cur) ==
    IF i > Len(s) THEN <<cur>>
    ELSE IF IsSeparator(s[i]) THEN <<cur>> \o SplitFrom(s, i + 1, <<>>)
    ELSE SplitFrom(s, i + 1, Append(cur, s[i]))

Split(s) == SplitFrom(s, 1, <<>>)

\* value of a sequence of decimal digits, in units
RECURSIVE DigitsValue(_)
DigitsValue(s) ==
    IF s = <<>> THEN 0
    ELSE DigitsValue(SubSeq(s, 1, Len(s) - 1)) * 10 + DigitVal(s[Len(s)])

\* Number with a token that is no number read as 0 instead of NaN
Number_garbageIsZero(tok) ==
    LET t == Trim(tok)
    IN  IF t # <<>> /\ \A i \in 1..Len(t) : IsDigit(t[i])
        THEN Num(DigitsValue(t) * 10)
        ELSE Num(0)

\* Number(token): the StringToNumber conversion on the characters the model
\* types (digits, letters, white space, the minus sign; no point or
\* exponent): white space is trimmed, the empty string is 0, a run of decimal
\* digits is its value, a minus sign directly before such a run negates it,
\* anything else is NaN.  The result counts tenths.
Number(tok) ==
    LET t == Trim(tok)
    IN  IF t = <<>> THEN Num(0)
        ELSE IF \A i \in 1..Len(t) : IsDigit(t[i])
             THEN Num(DigitsValue(t) * 10)
             ELSE IF /\ Len(t) > 1
                     /\ t[1] = "-"
                     /\ \A i \in 2..Len(t) : IsDigit(t[i])
                  THEN Num(-(DigitsValue(Tail(t)) * 10))
                  ELSE NaN

isNaN(x) == x = NaN

\* parseFloat((value * 0.1).toFixed(1)) on a value counting tenths: the
\* nearest number with one decimal digit.  An exact half goes away from
\* zero here; in the code it goes where the binary value of value * 0.1
\* lies, so Readings holds no value that scales to an exact half.
ScaleSoilMoisture(value) ==
    IF value >= 0 THEN (value + 5) \div 10
    ELSE -((-value + 5) \div 10)

-----------------------------------------------------------------------------
(* getColorCode *)

SoilMoistureName ==
    <<"S", "o", "i", "l", " ", "M", "o", "i", "s", "t", "u", "r", "e">>

Green == "bg-green-500"
Red == "bg-red-500"
Yellow == "bg-yellow-500"
NoColor == ""

\* favorable.replace(...).trim().split(/~|-/).map(Number)
ParseRange(fav) ==
    LET tokens == Split(Trim(ReplaceUnits(fav)))
    IN  [i \in 1..Len(tokens) |-> Number(tokens[i])]

\* getColorCode with the lower end of the range exclusive
getColorCode_exclusiveMin(element, value, fav) ==
    IF fav = <<>> THEN NoColor
    ELSE LET range == ParseRange(fav)
         IN  IF Len(range) # 2 \/ \E i \in 1..Len(range) : isNaN(range[i])
             THEN NoColor
             ELSE LET min == range[1][1]
                      max == range[2][1]
                      comparisonValue ==
                          IF element = SoilMoistureName
                          THEN ScaleSoilMoisture(value)
                          ELSE value
                  IN  IF comparisonValue > min /\ comparisonValue <= max
                      THEN Green
                      ELSE IF comparisonValue <= min THEN Red ELSE Yellow

\* getColorCode with the two numbers put in ascending order first
getColorCode_sortsBounds(element, value, fav) ==
    IF fav = <<>> THEN NoColor
    ELSE LET range == ParseRange(fav)
         IN  IF Len(range) # 2 \/ \E i \in 1..Len(range) : isNaN(range[i])
             THEN NoColor
             ELSE LET min == IF range[1][1] <= range[2][1]
                             THEN range[1][1] ELSE range[2][1]
                      max == IF range[1][1] <= range[2][1]
                             THEN range[2][1] ELSE range[1][1]
                      comparisonValue ==
                          IF element = SoilMoistureName
                          THEN ScaleSoilMoisture(value)
                          ELSE value
                  IN  IF comparisonValue >= min /\ comparisonValue <= max
                      THEN Green
                      ELSE IF comparisonValue < min THEN Red ELSE Yellow

getColorCode(element, value, fav) ==
    IF fav = <<>> THEN NoColor
    ELSE LET range == ParseRange(fav)
         IN  IF Len(range) # 2 \/ \E i \in 1..Len(range) : isNaN(range[i])
             THEN NoColor
             ELSE LET min == range[1][1]
                      max == range[2][1]
                      comparisonValue ==
                          IF element = SoilMoistureName
                          THEN ScaleSoilMoisture(value)
                          ELSE value
                  IN  IF comparisonValue >= min /\ comparisonValue <= max
                      THEN Green
                      ELSE IF comparisonValue < min THEN Red ELSE Yellow

-----------------------------------------------------------------------------
(* The row of the Result page *)

Keys ==
    { <<"t", "e", "m", "p", "e", "r", "a", "t", "u", "r", "e">>,
      <<"h", "u", "m", "i", "d", "i", "t", "y">>,
      <<"s", "o", "i", "l", "M", "o", "i", "s", "t", "u", "r", "e">>,
      <<"n", "i", "t", "r", "o", "g", "e", "n">>,
      <<"p", "h", "o", "s", "p", "h", "o", "r", "u", "s">>,
      <<"p", "o", "t", "a", "s", "s", "i", "u", "m">> }

\* s.replace(/([A-Z])/g, ' $1')
RECURSIVE SpaceBeforeCapitals(_)
SpaceBeforeCapitals(s) ==
    IF s = <<>> THEN <<>>
    ELSE (IF IsUpper(Head(s)) THEN <<" ", Head(s)>> ELSE <<Head(s)>>)
         \o SpaceBeforeCapitals(Tail(s))

\* RowElementName without the space put before the capitals
RowElementName_noSpace(key) == <<ToUpper(key[1])>> \o Slice(key, 1)

\* key.charAt(0).toUpperCase() + key.slice(1).replace(/([A-Z])/g, ' $1')
RowElementName(key) ==
    <<ToUpper(key[1])>> \o SpaceBeforeCapitals(Slice(key, 1))

RowColor(key, value, fav) == getColorCode(RowElementName(key), value, fav)

\* what one input event adds to the range input
Pieces ==
    { <<"1">>, <<"2">>, <<"~">>, <<"-">>, <<" ">>, <<"a">>, <<"°", "c">> }

\* sensor readings (tenths)
Readings == {-10, 10, 96, 204}

-----------------------------------------------------------------------------
(* App: state, realtime pushes *)

Pages == {"home", "detail", "results", "soilAnalysis"}

\* the parameter names HomePage passes to onNavigate('detail', ...)
Parameters ==
    {"Temperature", "Humidity", "Soil Moisture", "Nitrogen", "Phosphorus",
     "Potassium"}

Fields ==
    {"temperature", "humidity", "soilMoisture", "nitrogen", "phosphorus",
     "potassium"}

\* the payload key onValue reads for each field
PayloadKey(f) ==
    CASE f = "temperature" -> "temperature"
      [] f = "humidity" -> "humidity"
      [] f = "soilMoisture" -> "sms"
      [] f = "nitrogen" -> "nitro"
      [] f = "phosphorus" -> "phospho"
      [] f = "potassium" -> "potas"

\* values of initialSensorData
initialSensorData == [f \in Fields |-> 0]

\* a payload value: a number (tenths), a text that is no number, or no key
PNum(n) == [kind |-> "number", val |-> n]
PText == [kind |-> "text", val |-> 0]
PAbsent == [kind |-> "absent", val |-> 0]

\* the snapshots the datastore pushes; NullSnapshot is snapshot.val() = null
NullSnapshot == [null |-> TRUE]

Snapshots ==
    { [null |-> FALSE,
       data |-> [temperature |-> PNum(250), humidity |-> PNum(650),
                 sms |-> PNum(8500), nitro |-> PNum(300),
                 phospho |-> PNum(400), potas |-> PNum(1200)]],
      [null |-> FALSE,
       data |-> [temperature |-> PNum(-25), humidity |-> PNum(904),
                 sms |-> PNum(4126), nitro |-> PText,
                 phospho |-> PNum(150), potas |-> PAbsent]] }

\* parseFloat(x) || 0
ParseFloatOrZero(x) == IF x.kind = "number" THEN x.val ELSE 0

\* an updater that keeps the previous value of a field whose payload key is
\* absent or is no number
FetchedSensorData_keepsPrevious(prevData, fetchedData) ==
    [f \in Fields |->
        IF fetchedData[PayloadKey(f)].kind = "number"
        THEN fetchedData[PayloadKey(f)].val
        ELSE prevData[f]]

\* the updater passed to setAppSensorData
FetchedSensorData(prevData, fetchedData) ==
    [f \in Fields |-> ParseFloatOrZero(fetchedData[PayloadKey(f)])]

\* OnValueSensorData with an absent snapshot resetting the values
OnValueSensorData_resetOnNull(prevData, snapshot) ==
    IF ~snapshot.null THEN FetchedSensorData(prevData, snapshot.data)
    ELSE initialSensorData

\* new value of appSensorData after the onValue callback
OnValueSensorData(prevData, snapshot) ==
    IF ~snapshot.null THEN FetchedSensorData(prevData, snapshot.data)
    ELSE prevData

NoDataMessage == "No sensor data found at 'SmartAgri' in Realtime Database."
ConfigMissingMessage == "Firebase configuration is missing."
AuthFailedMessage == "Firebase authentication failed"

-----------------------------------------------------------------------------
(* LandSoilAnalysisPage: sampling timer *)

\* an armed timer: its id, the time steps since it was armed or last fired,
\* and the sensorData its callback closed over
Timer(id, data) == [id |-> id, elapsed |-> 0, sensorData |-> data]

TimerIds == 1..MaxTimers

FreeTimerIds(ts) == TimerIds \ {t.id : t \in ts}

\* clearInterval(id)
clearInterval(ts, id) == {t \in ts : t.id # id}

\* a cleanup function that clears nothing
SamplingCleanup_clearsNothing(ts, ref) == ts

\* the cleanup function returned by the sampling effect
SamplingCleanup(ts, ref) == IF ref # 0 THEN clearInterval(ts, ref) ELSE ts

\* the body of the sampling effect: <<timers, intervalRef.current>>
SamplingEffect(ts, ref, storing, data) ==
    IF storing
    THEN LET id == CHOOSE i \in FreeTimerIds(ts) :
                       \A j \in FreeTimerIds(ts) : i <= j
         IN  <<ts \cup {Timer(id, data)}, id>>
    ELSE IF ref # 0 THEN <<clearInterval(ts, ref), 0>>
    ELSE <<ts, ref>>

\* the effect re-run without the previous cleanup
RerunSamplingEffect_withoutCleanup(ts, ref, storing, data) ==
    IF storing /\ FreeTimerIds(ts) = {} THEN <<ts, ref>>
    ELSE SamplingEffect(ts, ref, storing, data)

\* the effect re-run after a render in which isStoringData or sensorData
\* changed: the previous cleanup, then the body
RerunSamplingEffect(ts, ref, storing, data) ==
    SamplingEffect(SamplingCleanup(ts, ref), ref, storing, data)

CanRerunSamplingEffect(ts, ref, storing) ==
    storing => FreeTimerIds(SamplingCleanup(ts, ref)) # {}

\* new Date(), in ms since the page was opened
Timestamp(t) == t * (SampleIntervalMs \div TicksPerInterval)

\* the object built by the interval callback
NewSample(n, t, data) ==
    [sampleNumber |-> n,
     timestamp |-> Timestamp(t),
     temperature |-> data["temperature"],
     humidity |-> data["humidity"],
     soilMoisture |-> ScaleSoilMoisture(data["soilMoisture"]),
     nitrogen |-> data["nitrogen"],
     phosphorus |-> data["phosphorus"],
     potassium |-> data["potassium"]]

\* state of a freshly mounted LandSoilAnalysisPage
SoilPageInitial ==
    /\ soilAnalysisSamples = <<>>
    /\ isStoringData = FALSE
    /\ sampleCounterRef = 0
    /\ intervalRef = 0
    /\ captureStart = [time |-> 0, len |-> 0]

SoilPageMount ==
    /\ soilAnalysisSamples' = <<>>
    /\ isStoringData' = FALSE
    /\ sampleCounterRef' = 0
    /\ intervalRef' = 0
    /\ captureStart' = [time |-> 0, len |-> 0]

-----------------------------------------------------------------------------
(* ResultPage: advisory requests *)

Flows == {"soilHealth", "cropPrediction"}

\* a request belongs to the mounted ResultPage ("live") or to one that has
\* been unmounted since ("stale"): its setters then change nothing
Owners == {"live", "stale"}

NoRequests == [f \in Flows |-> [o \in Owners |-> 0]]

InFlightOf(f) == inFlight[f]["live"] + inFlight[f]["stale"]

InFlightTotal == InFlightOf("soilHealth") + InFlightOf("cropPrediction")

\* how a request settles
Outcomes == {"text", "noText", "httpError", "networkError"}

KeyMissingText == "API key is missing. Please configure it to use this feature."

\* the status and the body of a response that is not ok, and the message
\* of the error fetch rejects with
ResponseStatus == "500"
ResponseBody == "quota exceeded"
NetworkErrorMessage == "Failed to fetch"

\* `HTTP error! status: ${response.status}, body: ${errorBody}`
HttpErrorMessage(status, body) ==
    "HTTP error! status: " \o status \o ", body: " \o body

\* the errorMessage of the catch block
FailedToFetchText(message) ==
    "Failed to fetch response from Gemini. Error: " \o message
        \o ". Please check your API key and network."

\* ResultText without the fallback for a response that has no text
ResultText_noFallback(outcome) ==
    CASE outcome = "text" -> "candidates[0].content.parts[0].text"
      [] outcome = "noText" -> ""
      [] outcome = "httpError" ->
           FailedToFetchText(HttpErrorMessage(ResponseStatus, ResponseBody))
      [] outcome = "networkError" -> FailedToFetchText(NetworkErrorMessage)

\* the text getGeminiResponse stores for an outcome
ResultText(outcome) ==
    CASE outcome = "text" -> "candidates[0].content.parts[0].text"
      [] outcome = "noText" -> "No response received."
      [] outcome = "httpError" ->
           FailedToFetchText(HttpErrorMessage(ResponseStatus, ResponseBody))
      [] outcome = "networkError" -> FailedToFetchText(NetworkErrorMessage)

ResultPageMount ==
    /\ soilHealthSuggestion' = ""
    /\ cropPrediction' = ""
    /\ loadingSoilHealth' = FALSE
    /\ loadingCropPrediction' = FALSE

\* the requests of an unmounted page stay in flight: fetch is not aborted
Orphaned(reqs) ==
    [f \in Flows |-> [o \in Owners |->
        IF o = "stale" THEN reqs[f]["live"] + reqs[f]["stale"] ELSE 0]]

-----------------------------------------------------------------------------
(* ResultPage: crop profiles *)

\* Object.keys(cropFavorableData)
Crops == {"Manual", "Wheat", "Corn", "Rice", "Soybean", "Cotton"}

\* the catalog as the module defines it
CropCatalog ==
    [Manual |->
        [temperature |-> "21~37°C", humidity |-> "60~80%",
         soilMoisture |-> "70-100", nitrogen |-> "10~50",
         phosphorus |-> "15~73", potassium |-> "101~150"],
     Wheat |->
        [temperature |-> "18~24°C", humidity |-> "50~70%",
         soilMoisture |-> "40-60", nitrogen |-> "50~100",
         phosphorus |-> "20~40", potassium |-> "80~120"],
     Corn |->
        [temperature |-> "21~32°C", humidity |-> "60~85%",
         soilMoisture |-> "50-75", nitrogen |-> "80~150",
         phosphorus |-> "30~60", potassium |-> "120~200"],
     Rice |->
        [temperature |-> "25~35°C", humidity |-> "70~90%",
         soilMoisture |-> "80-100", nitrogen |-> "60~120",
         phosphorus |-> "25~50", potassium |-> "100~180"],
     Soybean |->
        [temperature |-> "20~30°C", humidity |-> "60~80%",
         soilMoisture |-> "45-65", nitrogen |-> "40~80",
         phosphorus |-> "25~55", potassium |-> "90~160"],
     Cotton |->
        [temperature |-> "25~35°C", humidity |-> "55~75%",
         soilMoisture |-> "50-70", nitrogen |-> "70~130",
         phosphorus |-> "20~45", potassium |-> "110~190"]]

\* the favorable strings of initialSensorData
InitialFavorable ==
    [temperature |-> "21°C~37°C", humidity |-> "60~80 %",
     soilMoisture |-> "70-100", nitrogen |-> "10~50",
     phosphorus |-> "15~73", potassium |-> "101~150"]

\* useState(sensorData): the rows start as the App's sensor data
LocalSensorDataInitial(sensorData) ==
    [k \in Fields |->
        [value |-> sensorData[k], favorable |-> InitialFavorable[k]]]

\* the updater of the effect on [sensorData]: the values are copied
SensorDataEffect(prevLocalData, sensorData) ==
    [k \in DOMAIN prevLocalData |->
        [prevLocalData[k] EXCEPT !.value = sensorData[k]]]

\* newFavorableData read from the catalog whatever the selected crop
NewFavorableData_alwaysCatalog(crop, manual, catalog) == catalog[crop]

\* selectedCrop === 'Manual' ? manualFavorableData : cropFavorableData[selectedCrop]
NewFavorableData(crop, manual, catalog) ==
    IF crop = "Manual" THEN manual ELSE catalog[crop]

\* the updater of the effect on [selectedCrop, manualFavorableData]
FavorableEffect(prevData, crop, manual, catalog) ==
    [k \in DOMAIN prevData |->
        [prevData[k] EXCEPT
            !.favorable = NewFavorableData(crop, manual, catalog)[k]]]

\* localSensorData of a ResultPage after its first render and both effects
MountedLocalSensorData(sensorData, catalog) ==
    FavorableEffect(
        SensorDataEffect(LocalSensorDataInitial(sensorData), sensorData),
        "Manual", catalog["Manual"], catalog)

NoProfiles == [f \in Flows |-> <<>>]

\* the selectedCrop and the favorable strings a handler reads (492-498)
RenderedProfile(crop, localData) ==
    [selectedCrop |-> crop,
     favorable |-> [k \in Fields |-> localData[k].favorable]]

\* a ResultPage is mounted: fresh state, then the effects of the first render
ProfileMount ==
    /\ selectedCrop' = "Manual"
    /\ manualFavorableData' = cropFavorableData["Manual"]
    /\ localSensorData' =
         MountedLocalSensorData(appSensorData, cropFavorableData)
    /\ UNCHANGED cropFavorableData

\* no ResultPage is mounted: its state does not exist
ProfileUnmounted ==
    /\ selectedCrop' = "Manual"
    /\ manualFavorableData' = cropFavorableData["Manual"]
    /\ localSensorData' = LocalSensorDataInitial(initialSensorData)
    /\ UNCHANGED cropFavorableData

-----------------------------------------------------------------------------
(* Initial states *)

ClassifierIdle ==
    /\ favorable = <<>>
    /\ nTyped = 0
    /\ rowKey = <<"t", "e", "m", "p", "e", "r", "a", "t", "u", "r", "e">>
    /\ rowValue = 0
    /\ color = NoColor

UIInitial ==
    /\ bootPc = "mounted"
    /\ db = FALSE
    /\ userId = 0
    /\ isAuthReady = FALSE
    /\ dbSubscribed = FALSE
    /\ currentPage = "home"
    /\ selectedParameter = ""
    /\ isDarkMode = TRUE
    /\ appSensorData = initialSensorData
    /\ consoleLog = {}
    /\ now = 0
    /\ SoilPageInitial
    /\ timers = {}
    /\ soilHealthSuggestion = ""
    /\ cropPrediction = ""
    /\ loadingSoilHealth = FALSE
    /\ loadingCropPrediction = FALSE
    /\ inFlight = NoRequests
    /\ requestProfile = NoProfiles
    /\ cropFavorableData = CropCatalog
    /\ selectedCrop = "Manual"
    /\ manualFavorableData = CropCatalog["Manual"]
    /\ localSensorData = LocalSensorDataInitial(initialSensorData)

Init ==
    /\ firebaseConfigured \in BOOLEAN
    /\ geminiKeyPresent \in BOOLEAN
    /\ UIInitial
    /\ ClassifierIdle

ClassifyInit ==
    /\ favorable = <<>>
    /\ nTyped = 0
    /\ rowKey \in Keys
    /\ rowValue \in Readings
    /\ color = RowColor(rowKey, rowValue, favorable)
    /\ firebaseConfigured = TRUE
    /\ geminiKeyPresent = TRUE
    /\ UIInitial

-----------------------------------------------------------------------------
(* Classifier actions *)

\* an input event on the row's range input, and the render that follows
TypeFavorable(p) ==
    /\ nTyped < MaxTyped
    /\ nTyped' = nTyped + 1
    /\ favorable' = favorable \o p
    /\ color' = RowColor(rowKey, rowValue, favorable')
    /\ UNCHANGED <<rowKey, rowValue>>
    /\ UNCHANGED uiVars

ClassifyNext == \E p \in Pieces : TypeFavorable(p)

ClassifySpec == ClassifyInit /\ [][ClassifyNext]_vars

-----------------------------------------------------------------------------
(* App actions *)

\* what the user sees: the loading screen until isAuthReady
Screen == IF ~isAuthReady THEN "Authenticating & Loading Data..." ELSE currentPage

\* the subscription effect: it registers the listener once db and
\* isAuthReady are both set
SubscriptionEffect(hasDb, ready) == hasDb /\ ready

\* the bootstrap effect, run once after the first render
InitFirebase ==
    /\ bootPc = "mounted"
    /\ IF ~firebaseConfigured
       THEN /\ consoleLog' = consoleLog \cup {ConfigMissingMessage}
            /\ bootPc' = "configMissing"
            /\ db' = db
       ELSE /\ db' = TRUE
            /\ bootPc' = "observing"
            /\ consoleLog' = consoleLog
    /\ dbSubscribed' = SubscriptionEffect(db', isAuthReady)
    /\ UNCHANGED <<userId, isAuthReady, currentPage, selectedParameter,
                   isDarkMode, appSensorData, now>>
    /\ UNCHANGED <<envVars, soilVars, resultVars, clsVars,
                   requestProfile, profileVars>>

\* the observer passed to onAuthStateChanged, called with the user (0: none).
\* Line 708 calls onAuthStateChanged, which line 4 does not import from
\* firebase/auth; the model gives the call the behaviour of that function.
AuthStateChanged(user) ==
    /\ \/ bootPc = "observing"
       \/ bootPc = "userPending" /\ user # 0
    /\ IF user # 0
       THEN /\ userId' = user
            /\ isAuthReady' = TRUE
            /\ bootPc' = "settled"
       ELSE /\ bootPc' = "signingIn"
            /\ UNCHANGED <<userId, isAuthReady>>
    /\ dbSubscribed' = SubscriptionEffect(db, isAuthReady')
    /\ UNCHANGED <<db, currentPage, selectedParameter, isDarkMode,
                   appSensorData, consoleLog, now>>
    /\ UNCHANGED <<envVars, soilVars, resultVars, clsVars,
                   requestProfile, profileVars>>

\* await signInAnonymously(...) returns or throws; the observer resumes
SignInSettled(ok) ==
    /\ bootPc = "signingIn"
    /\ IF ok
       THEN /\ bootPc' = "userPending"
            /\ consoleLog' = consoleLog
       ELSE /\ bootPc' = "settled"
            /\ consoleLog' = consoleLog \cup {AuthFailedMessage}
    /\ isAuthReady' = TRUE
    /\ dbSubscribed' = SubscriptionEffect(db, isAuthReady')
    /\ UNCHANGED <<db, userId, currentPage, selectedParameter, isDarkMode,
                   appSensorData, now>>
    /\ UNCHANGED <<envVars, soilVars, resultVars, clsVars,
                   requestProfile, profileVars>>

\* the pages a button of the rendered page navigates to
NavigationTargets ==
    IF currentPage = "home" THEN {"detail", "results", "soilAnalysis"}
    ELSE {"home"}

\* handleNavigate, with the unmount and mount of the pages it swaps
Navigate(page, parameter) ==
    /\ isAuthReady
    /\ page \in NavigationTargets
    /\ (page = "detail") = (parameter # "")
    /\ currentPage' = page
    /\ selectedParameter' = parameter
    /\ IF currentPage = "soilAnalysis" \/ page = "soilAnalysis"
       THEN /\ timers' = SamplingCleanup(timers, intervalRef)
            /\ SoilPageMount
       ELSE UNCHANGED soilVars
    /\ IF currentPage = "results" \/ page = "results"
       THEN /\ inFlight' = Orphaned(inFlight)
            /\ requestProfile' = NoProfiles
            /\ ResultPageMount
            /\ IF page = "results" THEN ProfileMount ELSE ProfileUnmounted
       ELSE UNCHANGED <<resultVars, requestProfile, profileVars>>
    /\ UNCHANGED <<bootPc, db, userId, isAuthReady, dbSubscribed, isDarkMode,
                   appSensorData, consoleLog, now>>
    /\ UNCHANGED <<envVars, clsVars>>

toggleDarkMode ==
    /\ isAuthReady
    /\ isDarkMode' = ~isDarkMode
    /\ UNCHANGED <<bootPc, db, userId, isAuthReady, dbSubscribed, currentPage,
                   selectedParameter, appSensorData, consoleLog, now>>
    /\ UNCHANGED <<envVars, soilVars, resultVars, clsVars,
                   requestProfile, profileVars>>

\* the onValue callback, with the renders and effects its state update causes
OnValue(snapshot) ==
    /\ dbSubscribed
    /\ appSensorData' = OnValueSensorData(appSensorData, snapshot)
    /\ consoleLog' =
         IF snapshot.null THEN consoleLog \cup {NoDataMessage} ELSE consoleLog
    /\ IF ~snapshot.null /\ currentPage = "soilAnalysis"
       THEN /\ CanRerunSamplingEffect(timers, intervalRef, isStoringData)
            /\ LET e == RerunSamplingEffect(timers, intervalRef,
                                            isStoringData, appSensorData')
               IN  /\ timers' = e[1]
                   /\ intervalRef' = e[2]
            /\ UNCHANGED <<soilAnalysisSamples, isStoringData,
                           sampleCounterRef, captureStart>>
       ELSE UNCHANGED soilVars
    /\ UNCHANGED <<bootPc, db, userId, isAuthReady, dbSubscribed, currentPage,
                   selectedParameter, isDarkMode, now>>
    /\ localSensorData' =
         IF ~snapshot.null /\ currentPage = "results"
         THEN SensorDataEffect(localSensorData, appSensorData')
         ELSE localSensorData
    /\ UNCHANGED <<cropFavorableData, selectedCrop, manualFavorableData>>
    /\ UNCHANGED <<envVars, resultVars, clsVars, requestProfile>>

-----------------------------------------------------------------------------
(* LandSoilAnalysisPage actions *)

\* handleStartStoringData that also sets the counter back to zero
handleStartStoringData_resetsCounter ==
    /\ isAuthReady /\ currentPage = "soilAnalysis"
    /\ ~isStoringData
    /\ isStoringData' = TRUE
    /\ CanRerunSamplingEffect(timers, intervalRef, TRUE)
    /\ LET e == RerunSamplingEffect(timers, intervalRef, TRUE, appSensorData)
       IN  /\ timers' = e[1]
           /\ intervalRef' = e[2]
    /\ captureStart' = [time |-> now, len |-> Len(soilAnalysisSamples)]
    /\ sampleCounterRef' = 0
    /\ UNCHANGED soilAnalysisSamples
    /\ UNCHANGED <<envVars, appVars, resultVars, clsVars,
                   requestProfile, profileVars>>

handleStartStoringData ==
    /\ isAuthReady /\ currentPage = "soilAnalysis"
    /\ ~isStoringData
    /\ isStoringData' = TRUE
    /\ CanRerunSamplingEffect(timers, intervalRef, TRUE)
    /\ LET e == RerunSamplingEffect(timers, intervalRef, TRUE, appSensorData)
       IN  /\ timers' = e[1]
           /\ intervalRef' = e[2]
    /\ captureStart' = [time |-> now, len |-> Len(soilAnalysisSamples)]
    /\ UNCHANGED <<soilAnalysisSamples, sampleCounterRef>>
    /\ UNCHANGED <<envVars, appVars, resultVars, clsVars,
                   requestProfile, profileVars>>

handleStopStoringData ==
    /\ isAuthReady /\ currentPage = "soilAnalysis"
    /\ isStoringData
    /\ isStoringData' = FALSE
    /\ LET e == RerunSamplingEffect(timers, intervalRef, FALSE, appSensorData)
       IN  /\ timers' = e[1]
           /\ intervalRef' = e[2]
    /\ UNCHANGED <<soilAnalysisSamples, sampleCounterRef, captureStart>>
    /\ UNCHANGED <<envVars, appVars, resultVars, clsVars,
                   requestProfile, profileVars>>

\* handleClearAllSamples without line 298: the counter keeps its value
handleClearAllSamples_keepsCounter ==
    /\ isAuthReady /\ currentPage = "soilAnalysis"
    /\ isStoringData' = FALSE
    /\ soilAnalysisSamples' = <<>>
    /\ sampleCounterRef' = sampleCounterRef
    /\ IF isStoringData
       THEN LET e == RerunSamplingEffect(timers, intervalRef, FALSE,
                                         appSensorData)
            IN  /\ timers' = e[1]
                /\ intervalRef' = e[2]
       ELSE UNCHANGED <<timers, intervalRef>>
    /\ UNCHANGED captureStart
    /\ UNCHANGED <<envVars, appVars, resultVars, clsVars,
                   requestProfile, profileVars>>

\* handleClearAllSamples without line 296: capture stays as it was
handleClearAllSamples_keepsCapturing ==
    /\ isAuthReady /\ currentPage = "soilAnalysis"
    /\ soilAnalysisSamples' = <<>>
    /\ sampleCounterRef' = 0
    /\ UNCHANGED <<isStoringData, timers, intervalRef, captureStart>>
    /\ UNCHANGED <<envVars, appVars, resultVars, clsVars,
                   requestProfile, profileVars>>

handleClearAllSamples ==
    /\ isAuthReady /\ currentPage = "soilAnalysis"
    /\ isStoringData' = FALSE
    /\ soilAnalysisSamples' = <<>>
    /\ sampleCounterRef' = 0
    /\ IF isStoringData
       THEN LET e == RerunSamplingEffect(timers, intervalRef, FALSE,
                                         appSensorData)
            IN  /\ timers' = e[1]
                /\ intervalRef' = e[2]
       ELSE UNCHANGED <<timers, intervalRef>>
    /\ UNCHANGED captureStart
    /\ UNCHANGED <<envVars, appVars, resultVars, clsVars,
                   requestProfile, profileVars>>

\* the timers whose interval ends with the next time step
DueTimers(ts) == {t \in ts : t.elapsed + 1 >= TicksPerInterval}

\* the interval callbacks of the due timers, run in id order:
\* <<sampleCounterRef.current, soilAnalysisSamples>>
RECURSIVE RunCallbacks(_, _, _, _)
RunCallbacks(due, counter, samples, t) ==
    IF due = {} THEN <<counter, samples>>
    ELSE LET first == CHOOSE x \in due : \A y \in due : x.id <= y.id
         IN  RunCallbacks(due \ {first}, counter + 1,
                 Append(samples, NewSample(counter + 1, t, first.sensorData)),
                 t)

\* one time step passes; the timers that reach their interval fire
TimePasses ==
    /\ now < MaxTime
    /\ now' = now + 1
    /\ timers' = {[t EXCEPT !.elapsed =
                      IF t \in DueTimers(timers) THEN 0 ELSE t.elapsed + 1] :
                  t \in timers}
    /\ LET r == RunCallbacks(DueTimers(timers), sampleCounterRef,
                             soilAnalysisSamples, now')
       IN  /\ sampleCounterRef' = r[1]
           /\ soilAnalysisSamples' = r[2]
    /\ UNCHANGED <<isStoringData, intervalRef, captureStart>>
    /\ UNCHANGED <<bootPc, db, userId, isAuthReady, dbSubscribed, currentPage,
                   selectedParameter, isDarkMode, appSensorData, consoleLog>>
    /\ UNCHANGED <<envVars, resultVars, clsVars,
                   requestProfile, profileVars>>

-----------------------------------------------------------------------------
(* ResultPage actions *)

Loading(f) ==
    IF f = "soilHealth" THEN loadingSoilHealth ELSE loadingCropPrediction

ResultOf(f) ==
    IF f = "soilHealth" THEN soilHealthSuggestion ELSE cropPrediction

\* a button that is never disabled
ButtonDisabled_never(f) == FALSE

\* a button disabled while either flow is loading
ButtonDisabled_anyLoading(f) == loadingSoilHealth \/ loadingCropPrediction

\* the disabled attribute of the flow's button
ButtonDisabled(f) == Loading(f)

\* ClickAdvisory without the test of the API key at line 446
ClickAdvisory_withoutKeyTest(f) ==
    /\ isAuthReady /\ currentPage = "results"
    /\ ~ButtonDisabled(f)
    /\ InFlightTotal < MaxInFlight
    /\ soilHealthSuggestion' =
         IF f = "soilHealth" THEN "" ELSE soilHealthSuggestion
    /\ cropPrediction' =
         IF f = "cropPrediction" THEN "" ELSE cropPrediction
    /\ loadingSoilHealth' =
         IF f = "soilHealth" THEN TRUE ELSE loadingSoilHealth
    /\ loadingCropPrediction' =
         IF f = "cropPrediction" THEN TRUE ELSE loadingCropPrediction
    /\ inFlight' = [inFlight EXCEPT ![f]["live"] = @ + 1]
    /\ requestProfile' =
         [requestProfile EXCEPT
             ![f] = <<RenderedProfile(selectedCrop, localSensorData)>>]
    /\ UNCHANGED <<envVars, appVars, soilVars, clsVars, profileVars>>

\* handleGetSoilHealthSuggestions / handleGetCropPredictions, up to the
\* first await of getGeminiResponse
ClickAdvisory(f) ==
    /\ isAuthReady /\ currentPage = "results"
    /\ ~ButtonDisabled(f)
    /\ IF ~geminiKeyPresent
       THEN /\ soilHealthSuggestion' =
                 IF f = "soilHealth" THEN KeyMissingText
                 ELSE soilHealthSuggestion
            /\ cropPrediction' =
                 IF f = "cropPrediction" THEN KeyMissingText
                 ELSE cropPrediction
            /\ loadingSoilHealth' = FALSE
            /\ loadingCropPrediction' = FALSE
            /\ UNCHANGED <<inFlight, requestProfile>>
       ELSE /\ InFlightTotal < MaxInFlight
            /\ soilHealthSuggestion' =
                 IF f = "soilHealth" THEN "" ELSE soilHealthSuggestion
            /\ cropPrediction' =
                 IF f = "cropPrediction" THEN "" ELSE cropPrediction
            /\ loadingSoilHealth' =
                 IF f = "soilHealth" THEN TRUE ELSE loadingSoilHealth
            /\ loadingCropPrediction' =
                 IF f = "cropPrediction" THEN TRUE ELSE loadingCropPrediction
            /\ inFlight' = [inFlight EXCEPT ![f]["live"] = @ + 1]
            /\ requestProfile' =
                 [requestProfile EXCEPT
                     ![f] = <<RenderedProfile(selectedCrop, localSensorData)>>]
    /\ UNCHANGED <<envVars, appVars, soilVars, clsVars, profileVars>>

\* the rest of getGeminiResponse, after the request has settled
Settle(f, owner, outcome) ==
    /\ inFlight[f][owner] > 0
    /\ inFlight' = [inFlight EXCEPT ![f][owner] = @ - 1]
    /\ requestProfile' =
         IF owner = "live" THEN [requestProfile EXCEPT ![f] = <<>>]
         ELSE requestProfile
    /\ IF owner = "live"
       THEN /\ soilHealthSuggestion' =
                 IF f = "soilHealth" THEN ResultText(outcome)
                 ELSE soilHealthSuggestion
            /\ cropPrediction' =
                 IF f = "cropPrediction" THEN ResultText(outcome)
                 ELSE cropPrediction
            /\ loadingSoilHealth' =
                 IF f = "soilHealth" THEN FALSE ELSE loadingSoilHealth
            /\ loadingCropPrediction' =
                 IF f = "cropPrediction" THEN FALSE ELSE loadingCropPrediction
       ELSE UNCHANGED <<soilHealthSuggestion, cropPrediction,
                        loadingSoilHealth, loadingCropPrediction>>
    /\ UNCHANGED <<envVars, appVars, soilVars, clsVars, profileVars>>

handleClearAllSuggestions ==
    /\ isAuthReady /\ currentPage = "results"
    /\ soilHealthSuggestion # "" \/ cropPrediction # ""
    /\ soilHealthSuggestion' = ""
    /\ cropPrediction' = ""
    /\ UNCHANGED <<loadingSoilHealth, loadingCropPrediction, inFlight>>
    /\ UNCHANGED <<envVars, appVars, soilVars, clsVars, requestProfile,
                   profileVars>>

\* the crops the model selects
SelectedCrops == {"Manual", "Wheat", "Rice"}

\* the row the model edits and the texts it types into it
EditedKeys == {"soilMoisture"}
TypedRanges == {"", "40-60"}

\* handleCropChange, with the effect on [selectedCrop, manualFavorableData]
\* that the re-render runs
handleCropChange(crop) ==
    /\ isAuthReady /\ currentPage = "results"
    /\ crop # selectedCrop
    /\ selectedCrop' = crop
    /\ localSensorData' =
         FavorableEffect(localSensorData, crop, manualFavorableData,
                         cropFavorableData)
    /\ soilHealthSuggestion' = ""
    /\ cropPrediction' = ""
    /\ UNCHANGED <<cropFavorableData, manualFavorableData>>
    /\ UNCHANGED <<loadingSoilHealth, loadingCropPrediction, inFlight,
                   requestProfile>>
    /\ UNCHANGED <<envVars, appVars, soilVars, clsVars>>

\* handleFavorableInputChange(key, value), with the same effect; the input
\* is rendered only while 'Manual' is selected
handleFavorableInputChange(key, value) ==
    /\ isAuthReady /\ currentPage = "results"
    /\ selectedCrop = "Manual"
    /\ value # manualFavorableData[key]
    /\ manualFavorableData' = [manualFavorableData EXCEPT ![key] = value]
    /\ localSensorData' =
         FavorableEffect(localSensorData, selectedCrop, manualFavorableData',
                         cropFavorableData)
    /\ soilHealthSuggestion' = ""
    /\ cropPrediction' = ""
    /\ UNCHANGED <<cropFavorableData, selectedCrop>>
    /\ UNCHANGED <<loadingSoilHealth, loadingCropPrediction, inFlight,
                   requestProfile>>
    /\ UNCHANGED <<envVars, appVars, soilVars, clsVars>>

-----------------------------------------------------------------------------
(* The application *)

Next ==
    \/ InitFirebase
    \/ \E user \in {0, 1} : AuthStateChanged(user)
    \/ \E ok \in BOOLEAN : SignInSettled(ok)
    \/ \E page \in Pages, parameter \in Parameters \cup {""} :
           Navigate(page, parameter)
    \/ toggleDarkMode
    \/ \E snapshot \in Snapshots \cup {NullSnapshot} : OnValue(snapshot)
    \/ handleStartStoringData
    \/ handleStopStoringData
    \/ handleClearAllSamples
    \/ TimePasses
    \/ \E f \in Flows : ClickAdvisory(f)
    \/ \E f \in Flows, owner \in Owners, outcome \in Outcomes :
           Settle(f, owner, outcome)
    \/ handleClearAllSuggestions

Spec == Init /\ [][Next]_vars

\* the Result page with its crop profiles: the bootstrap, the navigation,
\* the realtime pushes, the advisory requests, the crop selector and the
\* range inputs
ResultNext ==
    \/ InitFirebase
    \/ \E user \in {0, 1} : AuthStateChanged(user)
    \/ \E ok \in BOOLEAN : SignInSettled(ok)
    \/ \E page \in {"home", "results"} : Navigate(page, "")
    \/ \E snapshot \in Snapshots \cup {NullSnapshot} : OnValue(snapshot)
    \/ \E f \in Flows : ClickAdvisory(f)
    \/ \E f \in Flows, owner \in Owners, outcome \in {"text", "networkError"} :
           Settle(f, owner, outcome)
    \/ handleClearAllSuggestions
    \/ \E crop \in SelectedCrops : handleCropChange(crop)
    \/ \E key \in EditedKeys, value \in TypedRanges :
           handleFavorableInputChange(key, value)

ResultSpec == Init /\ [][ResultNext]_vars

-----------------------------------------------------------------------------
(* Properties of the classifier (ClassifySpec) *)

SoilMoistureKey ==
    <<"s", "o", "i", "l", "M", "o", "i", "s", "t", "u", "r", "e">>

\* the tokens of the typed spec, after the units are stripped
TypedTokens == Split(Trim(ReplaceUnits(favorable)))

\* a token that is a number written out: decimal digits, white space around
IsNumeral(tok) ==
    /\ Trim(tok) # <<>>
    /\ \A i \in 1..Len(Trim(tok)) : IsDigit(Trim(tok)[i])

\* the typed spec is two numerals
TwoNumerals ==
    LET tokens == TypedTokens
    IN  Len(tokens) = 2 /\ IsNumeral(tokens[1]) /\ IsNumeral(tokens[2])

\* range is two numbers
IsRange(range) == Len(range) = 2 /\ range[1] # NaN /\ range[2] # NaN

\* the one-decimal numbers nearest to value / 10 (value counts tenths)
NearestTenths(value) ==
    {n \in (value \div 10 - 1)..(value \div 10 + 1) : 10 * n - value \in -5..5}

\* the value the row compares: scaled for the soil moisture row only
ScaledValues ==
    IF rowKey = SoilMoistureKey THEN NearestTenths(rowValue) ELSE {rowValue}

ThreeWay(v, lo, hi) ==
    /\ color \in {Red, Yellow, Green}
    /\ (color = Red) = (v < lo)
    /\ (color = Yellow) = (v > hi)
    /\ (color = Green) = (lo <= v /\ v <= hi)

\* C1: for a spec that parses to [min, max] with min <= max, the color is
\* BELOW iff v < min, ABOVE iff v > max and WITHIN iff min <= v <= max, with
\* both ends inclusive.
C1_ThreeWayClassification ==
    favorable # <<>> =>
        LET range == ParseRange(favorable)
        IN  (IsRange(range) /\ range[1][1] <= range[2][1]) =>
                \A v \in ScaledValues : ThreeWay(v, range[1][1], range[2][1])

\* a reading equal to the lower end of a proper range, classified WITHIN
C1_Witness ==
    /\ favorable # <<>>
    /\ LET range == ParseRange(favorable)
       IN  /\ IsRange(range)
           /\ range[1][1] < range[2][1]
           /\ rowValue = range[1][1]
    /\ rowKey # SoilMoistureKey
    /\ color = Green

\* C8: a spec that is not exactly two numerals has no color, for every value;
\* this includes an empty token on one side of the separator.
C8_NotTwoNumeralsIsInvalid == ~TwoNumerals => color = NoColor

\* C9: a spec with a non-numeric token, a single-token spec or an empty spec
\* has no color, for every measurement name and value.
HasWord(tok) == \E i \in 1..Len(tok) : ~IsDigit(tok[i]) /\ ~IsSpace(tok[i])

C9_MalformedIsInvalid ==
    LET tokens == TypedTokens
    IN  (\/ favorable = <<>>
         \/ Len(tokens) = 1
         \/ \E i \in 1..Len(tokens) : HasWord(tokens[i]))
            => color = NoColor

\* two tokens, one of them a word, and no color
C9_Witness ==
    /\ LET tokens == TypedTokens
       IN  Len(tokens) = 2 /\ IsNumeral(tokens[1]) /\ HasWord(tokens[2])
    /\ color = NoColor

\* the spec's example: raw 850 against '70-100' on the soil moisture row
ExampleColor ==
    RowColor(SoilMoistureKey, 850 * 10, <<"7", "0", "-", "1", "0", "0">>)

\* C10: the soil moisture row, and no other, is rendered under the name
\* 'Soil Moisture' and compares raw * 0.1 rounded to one decimal; the other
\* five rows compare the raw value; raw 850 against '70-100' is WITHIN.
C10_SoilMoistureScaling ==
    /\ (RowElementName(rowKey) = SoilMoistureName) = (rowKey = SoilMoistureKey)
    /\ favorable # <<>> =>
         LET range == ParseRange(favorable)
         IN  IsRange(range) =>
                 \A v \in ScaledValues :
                     color = IF v < range[1][1] THEN Red
                             ELSE IF v > range[2][1] THEN Yellow ELSE Green
    /\ ExampleColor = Green

\* a soil moisture reading that is WITHIN only because it is scaled
C10_Witness ==
    /\ rowKey = SoilMoistureKey
    /\ favorable # <<>>
    /\ LET range == ParseRange(favorable)
       IN  IsRange(range) /\ rowValue > range[2][1]
    /\ color = Green

\* C18: for a spec that parses to two numbers with the first greater than
\* the second, no value is WITHIN: a value below the first number is BELOW
\* and every other value is ABOVE; the numbers are used in the order typed.
C18_ReversedRangeNeverWithin ==
    favorable # <<>> =>
        LET range == ParseRange(favorable)
        IN  (IsRange(range) /\ range[1][1] > range[2][1]) =>
                \A v \in ScaledValues :
                    color = IF v < range[1][1] THEN Red ELSE Yellow

\* a reading between the second and the first number of a reversed range,
\* classified BELOW
C18_Witness ==
    /\ favorable # <<>>
    /\ LET range == ParseRange(favorable)
       IN  /\ IsRange(range)
           /\ range[2][1] < rowValue
           /\ rowValue < range[1][1]
    /\ rowKey # SoilMoistureKey
    /\ color = Red

\* the typed spec, units removed and trimmed, is a minus sign, a run of
\* digits, a separator and whatever follows as the second bound
NegativeLowerBoundSpec ==
    LET t == Trim(ReplaceUnits(favorable))
    IN  /\ Len(t) >= 3
        /\ t[1] = "-"
        /\ \E i \in 3..Len(t) :
              /\ t[i] \in {"~", "-"}
              /\ \A j \in 2..(i - 1) : IsDigit(t[j])

\* the spec's examples: -5 against '0~10', and the specs '-5~10' and '-5-10'
NegativeValueExampleColor ==
    getColorCode(<<"T", "e", "m", "p", "e", "r", "a", "t", "u", "r", "e">>,
                 -5 * 10, <<"0", "~", "1", "0">>)

NegativeBoundExampleColors ==
    {getColorCode(RowElementName(k), v, fav) :
        k \in Keys, v \in Readings,
        fav \in {<<"-", "5", "~", "1", "0">>, <<"-", "5", "-", "1", "0">>}}

\* C24: a spec that begins with a minus sign followed by a number and a
\* second bound splits into three or more tokens and has no color for every
\* value, so no parsed bound is ever negative; a negative value against a
\* range of two non-negative numbers is BELOW; -5 against '0~10' is BELOW and
\* '-5~10' and '-5-10' have no color.
C24_NegativeLowerBoundInvalid ==
    /\ NegativeLowerBoundSpec =>
          Len(TypedTokens) >= 3 /\ color = NoColor
    /\ (rowValue < 0 /\ favorable # <<>>) =>
          LET range == ParseRange(favorable)
          IN  /\ \A i \in 1..Len(range) : range[i] # NaN => range[i][1] >= 0
              /\ IsRange(range) => color = Red
    /\ NegativeValueExampleColor = Red
    /\ NegativeBoundExampleColors = {NoColor}

\* '-1~2' typed against a reading of 1.0: three tokens and no color
C24_Witness ==
    /\ Trim(ReplaceUnits(favorable)) = <<"-", "1", "~", "2">>
    /\ Len(TypedTokens) = 3
    /\ rowValue = 10
    /\ color = NoColor

-----------------------------------------------------------------------------
(* Properties of the application (Spec) *)

\* C2: while capture is active the log gains one sample per whole interval
\* of capture, whatever realtime pushes arrive meanwhile.
C2_FixedCadence ==
    isStoringData =>
        Len(soilAnalysisSamples) - captureStart.len
            = (now - captureStart.time) \div TicksPerInterval

\* C3: a push of an absent snapshot leaves the six measurement values as
\* they were.
C3_AbsentPushKeepsValues ==
    [][OnValue(NullSnapshot) => appSensorData' = appSensorData]_vars

\* an absent snapshot has been pushed and the values are those of an
\* earlier present snapshot
C3_Witness ==
    /\ NoDataMessage \in consoleLog
    /\ appSensorData # initialSensorData

\* C4: only Clear All Samples empties a log that holds samples.
C4_OnlyClearEmptiesLog ==
    [][(soilAnalysisSamples # <<>> /\ soilAnalysisSamples' = <<>>)
          => handleClearAllSamples]_vars

\* C5 as claimed: with a request of a flow in flight, the flow's button of
\* the rendered Result page accepts a click.
C5_SecondClickNotBlocked ==
    \A f \in Flows :
        (isAuthReady /\ currentPage = "results" /\ InFlightOf(f) > 0)
            => ~ButtonDisabled(f)

\* C5 as amended: while a request of a flow issued by the mounted Result page
\* is in flight the flow's button is disabled, and the mounted page never has
\* two requests of one flow in flight.
C5_SecondClickBlocked ==
    \A f \in Flows :
        /\ inFlight[f]["live"] <= 1
        /\ inFlight[f]["live"] = 1 => (currentPage = "results" /\ Loading(f))

\* both flows of the mounted page in flight, both buttons disabled
C5_Witness ==
    /\ currentPage = "results"
    /\ \A f \in Flows : inFlight[f]["live"] = 1 /\ ButtonDisabled(f)

\* C6: at most one advisory call per flow, so at most two in all, is in
\* flight at any moment.
C6_AtMostTwoInFlight ==
    /\ InFlightTotal <= 2
    /\ \A f \in Flows : InFlightOf(f) <= 1

\* C7: with the datastore configuration absent, once the bootstrap effect
\* has run the loading screen is left and the pages are shown.
C7_MissingConfigLeavesLoading ==
    (~firebaseConfigured /\ bootPc = "configMissing") => Screen \in Pages

\* C11: the sample at position i of the log has sample number i, so the
\* numbers start at 1 and increase strictly in insertion order, in every
\* reachable state.
C11_SampleNumberIsIndex ==
    \A i \in 1..Len(soilAnalysisSamples) :
        soilAnalysisSamples[i].sampleNumber = i

\* two samples numbered 1 and 2, taken from two different pushes
C11_Witness ==
    /\ Len(soilAnalysisSamples) = 2
    /\ soilAnalysisSamples[1].sampleNumber = 1
    /\ soilAnalysisSamples[2].sampleNumber = 2
    /\ soilAnalysisSamples[1].temperature # soilAnalysisSamples[2].temperature

\* C12: Clear All Samples empties the log, zeroes the counter and turns
\* capture off, whether or not capture was active; an empty log stays empty
\* while capture is off; the first sample of an empty log has number 1.
C12_ClearResets ==
    [][/\ handleClearAllSamples =>
             /\ soilAnalysisSamples' = <<>>
             /\ sampleCounterRef' = 0
             /\ ~isStoringData'
       /\ (soilAnalysisSamples = <<>> /\ ~isStoringData /\ ~isStoringData')
             => soilAnalysisSamples' = <<>>
       /\ (soilAnalysisSamples = <<>> /\ soilAnalysisSamples' # <<>>)
             => /\ isStoringData
                /\ soilAnalysisSamples'[1].sampleNumber = 1]_vars

\* the log has just been cleared: capture had been started on a log that
\* held samples, and the log is empty, the counter zero and capture off
C12_Witness ==
    /\ currentPage = "soilAnalysis"
    /\ captureStart.len > 0
    /\ soilAnalysisSamples = <<>>
    /\ sampleCounterRef = 0
    /\ ~isStoringData
    /\ timers = {}

\* C13: whenever capture is off or the Land Soil Analysis page is not the
\* rendered page, no timer is armed; and no step taken with capture off
\* appends a sample.
C13_TimerCancelledOnExit ==
    [][/\ (~isStoringData' \/ currentPage' # "soilAnalysis") => timers' = {}
       /\ ~isStoringData =>
             Len(soilAnalysisSamples') <= Len(soilAnalysisSamples)]_vars

\* capture took a sample and was turned off; a whole interval has passed
\* since that sample and none was added
C13_Witness ==
    /\ currentPage = "soilAnalysis"
    /\ ~isStoringData
    /\ timers = {}
    /\ soilAnalysisSamples # <<>>
    /\ Timestamp(now)
         - soilAnalysisSamples[Len(soilAnalysisSamples)].timestamp
           >= SampleIntervalMs

\* the other advisory flow
OtherFlow(f) == IF f = "soilHealth" THEN "cropPrediction" ELSE "soilHealth"

\* C14: with an API key configured, a step that starts a request of one
\* flow, or settles one with any outcome, leaves the other flow's loading
\* flag and result text unchanged; and the button of a flow that has no
\* request of the rendered page in flight is enabled, whatever the other
\* flow is doing.
C14_FlowsIndependent ==
    [][\A f \in Flows :
          /\ (/\ geminiKeyPresent
              /\ \/ ClickAdvisory(f)
                 \/ \E owner \in Owners, outcome \in Outcomes :
                        Settle(f, owner, outcome))
                => /\ Loading(OtherFlow(f))' = Loading(OtherFlow(f))
                   /\ ResultOf(OtherFlow(f))' = ResultOf(OtherFlow(f))
          /\ (currentPage' = "results" /\ inFlight'[OtherFlow(f)]["live"] = 0)
                => ~ButtonDisabled(OtherFlow(f))']_vars

\* the soil-health request has failed while the crop-prediction request is
\* still in flight: the crop-prediction flow is loading and has no text
C14_Witness ==
    /\ currentPage = "results"
    /\ soilHealthSuggestion = ResultText("httpError")
    /\ ~loadingSoilHealth
    /\ loadingCropPrediction
    /\ cropPrediction = ""
    /\ inFlight["cropPrediction"]["live"] = 1

\* the outcomes that are failures: a non-2xx status, a network failure, a
\* response without candidates[0].content.parts[0].text
FailureOutcomes == Outcomes \ {"text"}

\* the error string the page shows for a failure
ErrorShown(outcome) ==
    CASE outcome = "noText" -> "No response received."
      [] outcome = "httpError" ->
           "Failed to fetch response from Gemini. Error: HTTP error! status: 500, body: quota exceeded. Please check your API key and network."
      [] outcome = "networkError" ->
           "Failed to fetch response from Gemini. Error: Failed to fetch. Please check your API key and network."

C16_MissingKeyMessage ==
    [][~geminiKeyPresent =>
          /\ InFlightTotal' = 0
          /\ \A f \in Flows :
                ClickAdvisory(f) =>
                    /\ ResultOf(f)' =
                         "API key is missing. Please configure it to use this feature."
                    /\ ResultOf(OtherFlow(f))' = ResultOf(OtherFlow(f))
                    /\ ~loadingSoilHealth' /\ ~loadingCropPrediction'
                    /\ Screen' = "results"
                    /\ UNCHANGED <<appSensorData, clsVars>>]_vars

\* both buttons have been clicked without a key: both messages are shown
C16_Witness ==
    /\ ~geminiKeyPresent
    /\ currentPage = "results"
    /\ soilHealthSuggestion = KeyMissingText
    /\ cropPrediction = KeyMissingText
    /\ ~loadingSoilHealth /\ ~loadingCropPrediction
    /\ InFlightTotal = 0

\* the number a payload entry stands for, 0 when it is absent or no number
NumberOrZero(x) == IF x.kind = "number" THEN x.val ELSE 0

\* the six values a present payload stands for
PushedValues(data) ==
    [temperature |-> NumberOrZero(data.temperature),
     humidity |-> NumberOrZero(data.humidity),
     soilMoisture |-> NumberOrZero(data.sms),
     nitrogen |-> NumberOrZero(data.nitro),
     phosphorus |-> NumberOrZero(data.phospho),
     potassium |-> NumberOrZero(data.potas)]

\* the values the model's pushes stand for, and the initial values
PossibleValues ==
    {initialSensorData}
        \cup {PushedValues(snapshot.data) : snapshot \in Snapshots}

\* C17: a present push sets all six values in one step, each to the number
\* of its payload key or to 0 when the key is absent or no number, whatever
\* the values were before (a step that ends with other values than those of
\* a payload is no push of that payload); so the six values are always the
\* initial ones or those of one single push, never a mix of two pushes.
C17_PushReplacesAllSix ==
    [][/\ \A snapshot \in Snapshots :
             appSensorData' # PushedValues(snapshot.data) => ~OnValue(snapshot)
       /\ appSensorData' \in PossibleValues]_vars

\* a sample was taken from a push with all six keys, and the values are
\* now those of a later push with a key absent and a key that is no number
C17_Witness ==
    /\ soilAnalysisSamples # <<>>
    /\ soilAnalysisSamples[1].nitrogen # 0
    /\ soilAnalysisSamples[1].potassium # 0
    /\ appSensorData["nitrogen"] = 0
    /\ appSensorData["potassium"] = 0
    /\ appSensorData["temperature"] # 0
    /\ appSensorData["temperature"] # soilAnalysisSamples[1].temperature

\* s is a prefix of t
IsPrefix(s, t) == Len(s) <= Len(t) /\ SubSeq(t, 1, Len(s)) = s

\* C19: the log is append-only: every step other than Clear All Samples
\* leaves the log a prefix of the new log and adds at most one sample.
C19_LogAppendOnly ==
    [][~handleClearAllSamples =>
          /\ IsPrefix(soilAnalysisSamples, soilAnalysisSamples')
          /\ Len(soilAnalysisSamples') <= Len(soilAnalysisSamples) + 1]_vars

\* C20: at most one interval timer is armed in any state, and two samples
\* that follow one another in the log are at least one interval apart: one
\* elapsed interval never appends more than one sample.
C20_AtMostOneTimer ==
    /\ Cardinality(timers) <= 1
    /\ \A i \in 1..(Len(soilAnalysisSamples) - 1) :
           soilAnalysisSamples[i + 1].timestamp
             - soilAnalysisSamples[i].timestamp >= SampleIntervalMs

\* capture was started again on a log that holds samples and the timer has
\* been re-armed by a present push since: exactly one timer is armed
C20_Witness ==
    /\ isStoringData
    /\ captureStart.len > 0
    /\ appSensorData # initialSensorData
    /\ Cardinality(timers) = 1
    /\ \A t \in timers : t.id = intervalRef /\ t.sensorData = appSensorData
    /\ soilAnalysisSamples[1].temperature # appSensorData["temperature"]

\* C22: Stop and Start leave the log and the counter as they are, and a
\* sample appended to a log of n samples has number n + 1: the first sample
\* after a restart without a clear continues the numbering.
C22_RestartContinuesNumbering ==
    [][/\ (handleStopStoringData \/ handleStartStoringData)
             => UNCHANGED <<soilAnalysisSamples, sampleCounterRef>>
       /\ Len(soilAnalysisSamples') > Len(soilAnalysisSamples)
             => soilAnalysisSamples'[Len(soilAnalysisSamples')].sampleNumber
                  = Len(soilAnalysisSamples) + 1]_vars

\* capture was started again on a log of n > 0 samples and has appended its
\* first sample since, numbered n + 1
C22_Witness ==
    /\ captureStart.len > 0
    /\ Len(soilAnalysisSamples) = captureStart.len + 1
    /\ soilAnalysisSamples[Len(soilAnalysisSamples)].sampleNumber
         = captureStart.len + 1
    /\ soilAnalysisSamples[captureStart.len].sampleNumber = captureStart.len

-----------------------------------------------------------------------------
(* Properties of the Result page with its crop profiles (ResultSpec) *)

\* a step that changes the selected crop or edits a Manual range
SelectionChanges ==
    \/ \E crop \in SelectedCrops : handleCropChange(crop)
    \/ \E key \in EditedKeys, value \in TypedRanges :
           handleFavorableInputChange(key, value)

\* the request of the flow in flight was issued under another crop or other
\* ranges than those now rendered
IssuedBeforeChange(f) ==
    /\ requestProfile[f] # <<>>
    /\ requestProfile[f] # <<RenderedProfile(selectedCrop, localSensorData)>>

\* C21: a change of the selected crop or an edit of a Manual range clears
\* both result texts, and a response to a request issued before the change
\* that arrives after it leaves the flow's result text empty.
C21_StaleResponseDiscarded ==
    [][/\ SelectionChanges =>
             soilHealthSuggestion' = "" /\ cropPrediction' = ""
       /\ \A f \in Flows, outcome \in Outcomes :
             (IssuedBeforeChange(f) /\ Settle(f, "live", outcome))
                 => ResultOf(f)' = ""]_vars

\* the favorable strings of the profile in force
ActiveProfile ==
    IF selectedCrop = "Manual" THEN manualFavorableData
    ELSE CropCatalog[selectedCrop]

\* every row of the mounted Result page carries the active profile's string
ActiveProfileShown ==
    currentPage = "results" =>
        \A k \in Fields : localSensorData[k].favorable = ActiveProfile[k]

\* C23: on the Result page every row's favorable range is that of the active
\* profile (the catalog entry of a named crop, the user's Manual strings
\* under 'Manual'); the catalog never changes, Manual defaults included; a
\* crop change keeps the Manual strings; and a realtime push leaves the
\* selected crop and every favorable string as they are and sets the rows'
\* values to the pushed ones.
C23_ActiveProfileClassifies ==
    [][/\ ActiveProfileShown /\ ActiveProfileShown'
       /\ cropFavorableData = CropCatalog /\ cropFavorableData' = CropCatalog
       /\ (\E crop \in SelectedCrops : handleCropChange(crop))
             => manualFavorableData' = manualFavorableData
       /\ (appSensorData' # appSensorData /\ currentPage = "results")
             => /\ selectedCrop' = selectedCrop
                /\ manualFavorableData' = manualFavorableData
                /\ \A k \in Fields :
                      /\ localSensorData'[k].favorable
                           = localSensorData[k].favorable
                      /\ localSensorData'[k].value = appSensorData'[k]]_vars

\* a named crop is selected after a Manual range was edited and a push has
\* arrived: the rows carry the crop's catalog strings and the pushed values,
\* and the edited Manual string is still held
C23_Witness ==
    /\ currentPage = "results"
    /\ selectedCrop = "Rice"
    /\ manualFavorableData["soilMoisture"] = "40-60"
    /\ localSensorData["soilMoisture"].favorable = "80-100"
    /\ appSensorData # initialSensorData
    /\ \A k \in Fields : localSensorData[k].value = appSensorData[k]

====
